---- MODULE Spec2Model ----
(***************************************************************************)
(* Day 17 of Anxiko/aoc2023: the constrained directional shortest-path     *)
(* search of src/src/day17.py over the Grid of src/src/shared/grid.py and  *)
(* the Coord / Direction of src/src/shared/coord.py.                       *)
(*                                                                         *)
(* One behaviour is one call of shortest_path(grid, ultra_crucible): the   *)
(* variables are the locals of that call, one action is one pass through   *)
(* the body of its while loop (or the raise after it).                     *)
(***************************************************************************)
EXTENDS Integers, Sequences, FiniteSets, TLC

VARIABLES
    grid,            \* Grid._rows: a list of rows, each a list of costs
    ultra_crucible,  \* the mode flag of shortest_path
    open_states,     \* the heapq list of State records
    seen_states,     \* the set of seen_key() tuples
    outcome,         \* "Running" | "Found" (return) | "Exhausted" (raise)
    result,          \* the returned cost once outcome = "Found"
    error,           \* the message of the exception raised, "" if none
    expanded,        \* history: how many times the neighbours were pushed
    steps,           \* history: how many times the loop condition was evaluated
    call,            \* the call under way: [fn |-> its name] and its arguments
    returned         \* what the calls made so far returned, in order

vars == <<grid, ultra_crucible, open_states, seen_states, outcome, result, error,
          expanded, steps, call, returned>>

(***************************************************************************)
(* Bounds of the model (the inputs that are enumerated).                   *)
(***************************************************************************)
MaxCells == 6    \* every rectangular grid of at most this many cells
MaxCost == 2     \* cell costs range over 1..MaxCost (walls: 0..MaxCost)
MaxSide == 5     \* square grids up to MaxSide x MaxSide with one wall
MaxRagged == 3   \* ragged grids: up to MaxRagged rows of up to MaxRagged cells
MaxLine == 12    \* corridors: grids one or two cells wide and up to MaxLine long
MaxValue == 4    \* the limits of the ranges of day 19 and day 5 lie in 0..MaxValue
MaxEntries == 2  \* a RangeMapping of day 5 has at most MaxEntries entries
MaxPathCost == 6  \* compared states have paid at most MaxPathCost

(***************************************************************************)
(* Program constants, src/src/day17.py lines 14-17.                        *)
(***************************************************************************)
\* mutant: the regular limit off by one
MAX_REGULAR_STRAIGHT_LINE_plus_one == 3 + 1

MAX_REGULAR_STRAIGHT_LINE == 3
\* mutant: the minimum run off by one
MIN_ULTRA_STRAIGHT_LINE_minus_one == 4 - 1

MIN_ULTRA_STRAIGHT_LINE == 4
MAX_ULTRA_STRAIGHT_LINE == 10

(***************************************************************************)
(* shared/coord.py                                                         *)
(***************************************************************************)
Coord(x, y) == [x |-> x, y |-> y]

at_origin == Coord(0, 0)

Coord_add(a, b) == Coord(a.x + b.x, a.y + b.y)

Coord_sub(a, b) == Coord(a.x - b.x, a.y - b.y)

abs(n) == IF n < 0 THEN -n ELSE n

manhattan(c) == abs(c.x) + abs(c.y)

\* class Direction(enum.IntEnum), in definition order (the order of list(Direction))
Direction == <<"East", "North", "West", "South">>

\* the .value of a member
DirectionValue(d) == CHOOSE i \in 0..3 : Direction[i + 1] = d

\* Direction(v): the member whose value is v
DirectionOf(v) == Direction[v + 1]

rotate(d, rotation) == DirectionOf((DirectionValue(d) + rotation) % 4)

to_delta(d) ==
    CASE d = "North" -> Coord(0, -1)
      [] d = "South" -> Coord(0, 1)
      [] d = "West" -> Coord(-1, 0)
      [] d = "East" -> Coord(1, 0)

(***************************************************************************)
(* shared/grid.py                                                          *)
(***************************************************************************)
width(rows) == IF rows = <<>> THEN 0 ELSE Len(rows[1])

height(rows) == Len(rows)

\* mutant: only the upper limits are tested
is_valid_coord_upper_only(rows, coord) ==
    /\ coord.x < width(rows)
    /\ coord.y < height(rows)

is_valid_coord(rows, coord) ==
    /\ 0 <= coord.x /\ coord.x < width(rows)
    /\ 0 <= coord.y /\ coord.y < height(rows)

\* lst[i] of a Python list: a negative index counts from the end, an index
\* beyond either end raises IndexError
list_getitem(lst, i) ==
    LET j == IF i < 0 THEN i + Len(lst) ELSE i
    IN  IF j < 0 \/ j >= Len(lst)
        THEN [raised |-> "IndexError", value |-> 0]
        ELSE [raised |-> "", value |-> lst[j + 1]]

\* mutant: a cell missing from a short row read as a cell of cost 1
Grid_getitem_pads_rows(rows, coord) ==
    IF ~is_valid_coord(rows, coord)
    THEN [raised |-> "IndexError", value |-> 0]
    ELSE LET row == list_getitem(rows, coord.y)
             cell == list_getitem(row.value, coord.x)
         IN  IF cell.raised # "" THEN [raised |-> "", value |-> 1] ELSE cell

\* Grid.__getitem__: IndexError for an invalid coordinate, otherwise
\* self._rows[coord.y][coord.x] with the lists' own indexing (and so their own
\* IndexError when the row at coord.y is shorter than the first row).
Grid_getitem(rows, coord) ==
    IF ~is_valid_coord(rows, coord)
    THEN [raised |-> "IndexError", value |-> 0]
    ELSE LET row == list_getitem(rows, coord.y)
         IN  IF row.raised # ""
             THEN row
             ELSE list_getitem(row.value, coord.x)

(***************************************************************************)
(* day17.py, class State                                                   *)
(***************************************************************************)
State(pos, end_pos, cost, last_direction, repeated_last_direction, ultra) ==
    [pos |-> pos, end_pos |-> end_pos, cost |-> cost,
     last_direction |-> last_direction,
     repeated_last_direction |-> repeated_last_direction,
     ultra_crucible |-> ultra]

\* mutant: the start cell's cost charged to the initial state
initial_pays_start(rows, ultra) ==
    State(at_origin, Coord(width(rows) - 1, height(rows) - 1),
          Grid_getitem(rows, at_origin).value, "None", 0, ultra)

initial(rows, ultra) ==
    State(at_origin, Coord(width(rows) - 1, height(rows) - 1), 0, "None", 0, ultra)

\* mutant: the accumulated cost made part of the key
seen_key_with_cost(s) == <<s.pos, s.last_direction, s.repeated_last_direction, s.cost>>

seen_key(s) == <<s.pos, s.last_direction, s.repeated_last_direction>>

\* mutant: the successor's cost is the entered cell's cost alone
move_in_direction_forgets_cost(s, direction, rows) ==
    LET straight == direction = s.last_direction
        max_straight_line ==
            IF s.ultra_crucible THEN MAX_ULTRA_STRAIGHT_LINE ELSE MAX_REGULAR_STRAIGHT_LINE
        new_repeated_last_direction ==
            IF straight THEN s.repeated_last_direction + 1 ELSE 1
        new_position == Coord_add(s.pos, to_delta(direction))
        added_cost == Grid_getitem(rows, new_position)
    IN  IF straight /\ new_repeated_last_direction > max_straight_line
        THEN <<>>
        ELSE IF /\ ~straight
                /\ s.ultra_crucible
                /\ s.last_direction # "None"
                /\ s.repeated_last_direction < MIN_ULTRA_STRAIGHT_LINE
        THEN <<>>
        ELSE IF added_cost.raised = "IndexError"
        THEN <<>>
        ELSE <<State(new_position, s.end_pos, added_cost.value, direction,
                     new_repeated_last_direction, s.ultra_crucible)>>

\* mutant: a turn carries the run length on where it should start it again
move_in_direction_run_not_reset(s, direction, rows) ==
    LET straight == direction = s.last_direction
        max_straight_line ==
            IF s.ultra_crucible THEN MAX_ULTRA_STRAIGHT_LINE ELSE MAX_REGULAR_STRAIGHT_LINE
        new_repeated_last_direction == s.repeated_last_direction + 1
        new_position == Coord_add(s.pos, to_delta(direction))
        added_cost == Grid_getitem(rows, new_position)
    IN  IF straight /\ new_repeated_last_direction > max_straight_line
        THEN <<>>
        ELSE IF /\ ~straight
                /\ s.ultra_crucible
                /\ s.last_direction # "None"
                /\ s.repeated_last_direction < MIN_ULTRA_STRAIGHT_LINE
        THEN <<>>
        ELSE IF added_cost.raised = "IndexError"
        THEN <<>>
        ELSE <<State(new_position, s.end_pos, s.cost + added_cost.value, direction,
                     new_repeated_last_direction, s.ultra_crucible)>>

\* _move_in_direction: the empty sequence stands for None
move_in_direction(s, direction, rows) ==
    LET straight == direction = s.last_direction
        max_straight_line ==
            IF s.ultra_crucible THEN MAX_ULTRA_STRAIGHT_LINE ELSE MAX_REGULAR_STRAIGHT_LINE
        new_repeated_last_direction ==
            IF straight THEN s.repeated_last_direction + 1 ELSE 1
        new_position == Coord_add(s.pos, to_delta(direction))
        added_cost == Grid_getitem(rows, new_position)
    IN  IF straight /\ new_repeated_last_direction > max_straight_line
        THEN <<>>
        ELSE IF /\ ~straight
                /\ s.ultra_crucible
                /\ s.last_direction # "None"
                /\ s.repeated_last_direction < MIN_ULTRA_STRAIGHT_LINE
        THEN <<>>
        ELSE IF added_cost.raised = "IndexError"
        THEN <<>>
        ELSE <<State(new_position, s.end_pos, s.cost + added_cost.value, direction,
                     new_repeated_last_direction, s.ultra_crucible)>>

\* mutant: the rotation by two quarter turns offered as well
possible_directions_with_reverse(s) ==
    IF s.last_direction = "None"
    THEN Direction
    ELSE <<rotate(s.last_direction, -1), rotate(s.last_direction, 0),
           rotate(s.last_direction, 1), rotate(s.last_direction, 2)>>

\* the possible_directions of neighbours
possible_directions(s) ==
    IF s.last_direction = "None"
    THEN Direction
    ELSE <<rotate(s.last_direction, -1), rotate(s.last_direction, 0),
           rotate(s.last_direction, 1)>>

\* mutant: each move changes the state it starts from and returns that same
\* state, so that the moves follow one another and every successor returned
\* is the state the last move left
RECURSIVE moved_in_place(_, _, _, _)
moved_in_place(s, directions, rows, made) ==
    IF directions = <<>>
    THEN [i \in 1..made |-> s]
    ELSE LET moved == move_in_direction(s, Head(directions), rows)
         IN  IF moved = <<>>
             THEN moved_in_place(s, Tail(directions), rows, made)
             ELSE moved_in_place(moved[1], Tail(directions), rows, made + 1)

move_all_in_place(s, directions, rows) == moved_in_place(s, directions, rows, 0)

RECURSIVE move_all(_, _, _)
move_all(s, directions, rows) ==
    IF directions = <<>>
    THEN <<>>
    ELSE move_in_direction(s, Head(directions), rows) \o move_all(s, Tail(directions), rows)

\* neighbours: the successors that are not None, in the order of the directions
neighbours(s, rows) == move_all(s, possible_directions(s), rows)

\* mutant: the distance to the end counted three times over
heuristic_tripled(s) == 3 * manhattan(Coord_sub(s.end_pos, s.pos))

heuristic(s) == manhattan(Coord_sub(s.end_pos, s.pos))

\* mutant: the accumulated cost left out of the estimate
estimate_without_cost(s) == heuristic(s)

estimate(s) == s.cost + heuristic(s)

\* mutant: the comparison the wrong way round
lt_reversed(a, b) == estimate(a) > estimate(b)

\* State.__lt__
lt(a, b) == estimate(a) < estimate(b)

\* State.__eq__
eq(a, b) == estimate(a) = estimate(b)

\* mutant: any arrival at the end accepted
is_end_state_any_run(s) == s.pos = s.end_pos

is_end_state(s) ==
    /\ s.pos = s.end_pos
    /\ (~s.ultra_crucible \/ s.repeated_last_direction >= MIN_ULTRA_STRAIGHT_LINE)

(***************************************************************************)
(* heapq, as day17.py uses it on open_states (positions are 0-based as in  *)
(* the library; heap[pos + 1] is the library's heap[pos]).                 *)
(***************************************************************************)
RECURSIVE siftdown_loop(_, _, _, _)
siftdown_loop(heap, startpos, pos, newitem) ==
    IF pos > startpos
    THEN LET parentpos == (pos - 1) \div 2
             parent == heap[parentpos + 1]
         IN  IF lt(newitem, parent)
             THEN siftdown_loop([heap EXCEPT ![pos + 1] = parent], startpos, parentpos, newitem)
             ELSE [heap EXCEPT ![pos + 1] = newitem]
    ELSE [heap EXCEPT ![pos + 1] = newitem]

siftdown(heap, startpos, pos) == siftdown_loop(heap, startpos, pos, heap[pos + 1])

RECURSIVE siftup_loop(_, _, _, _)
siftup_loop(heap, startpos, pos, newitem) ==
    LET endpos == Len(heap)
        childpos == 2 * pos + 1
        rightpos == childpos + 1
        smaller ==
            IF rightpos < endpos /\ ~lt(heap[childpos + 1], heap[rightpos + 1])
            THEN rightpos
            ELSE childpos
    IN  IF childpos < endpos
        THEN siftup_loop([heap EXCEPT ![pos + 1] = heap[smaller + 1]], startpos, smaller, newitem)
        ELSE siftdown([heap EXCEPT ![pos + 1] = newitem], startpos, pos)

siftup(heap, pos) == siftup_loop(heap, pos, pos, heap[pos + 1])

heappush(heap, item) == siftdown(Append(heap, item), 0, Len(heap))

\* heappop: the item returned ...
heappop_item(heap) == heap[1]

\* mutant: the smallest item is read but left on the heap
heappop_rest_peek(heap) == heap

\* ... and the heap it leaves behind
heappop_rest(heap) ==
    LET lastelt == heap[Len(heap)]
        popped == SubSeq(heap, 1, Len(heap) - 1)
    IN  IF popped = <<>>
        THEN popped
        ELSE siftup([popped EXCEPT ![1] = lastelt], 0)

RECURSIVE push_all(_, _)
push_all(heap, items) ==
    IF items = <<>>
    THEN heap
    ELSE push_all(heappush(heap, Head(items)), Tail(items))

(***************************************************************************)
(* day17.py, shortest_path.  The locals of one call are a record; loop_body *)
(* is one pass through the while loop for the popped state and the heap     *)
(* the pop left behind.                                                     *)
(***************************************************************************)
Locals(open, seen, out, res, err, exp, stp) ==
    [open_states |-> open, seen_states |-> seen, outcome |-> out,
     result |-> res, error |-> err, expanded |-> exp, steps |-> stp]

\* mutant: the visited set of the caller's previous search is carried into the call
shortest_path_entry_keeps_seen(rows, ultra) ==
    Locals(<<initial(rows, ultra)>>, seen_states, "Running", 0, "", 0, 0)

\* lines 102-103: the locals a call starts with
shortest_path_entry(rows, ultra) ==
    Locals(<<initial(rows, ultra)>>, {}, "Running", 0, "", 0, 0)

\* mutant: a state without successors ends the search with the error
loop_body_dead_end_raises(rows, l, state, rest) ==
    IF is_end_state(state)
    THEN Locals(rest, l.seen_states, "Found", state.cost, "", l.expanded, l.steps + 1)
    ELSE IF seen_key(state) \in l.seen_states
    THEN Locals(rest, l.seen_states, "Running", 0, "", l.expanded, l.steps + 1)
    ELSE IF neighbours(state, rows) = <<>>
    THEN Locals(rest, l.seen_states \cup {seen_key(state)}, "Exhausted", 0,
                "ValueError: Failed to find a path", l.expanded + 1, l.steps + 1)
    ELSE Locals(push_all(rest, neighbours(state, rows)),
                l.seen_states \cup {seen_key(state)}, "Running", 0, "", l.expanded + 1,
                l.steps + 1)

loop_body(rows, l, state, rest) ==
    IF is_end_state(state)
    THEN Locals(rest, l.seen_states, "Found", state.cost, "", l.expanded, l.steps + 1)
    ELSE IF seen_key(state) \in l.seen_states
    THEN Locals(rest, l.seen_states, "Running", 0, "", l.expanded, l.steps + 1)
    ELSE Locals(push_all(rest, neighbours(state, rows)),
                l.seen_states \cup {seen_key(state)}, "Running", 0, "", l.expanded + 1,
                l.steps + 1)

\* mutant: a sentinel cost is returned where the error should be raised
no_path_returns(l) ==
    Locals(l.open_states, l.seen_states, "Found", 0, "", l.expanded, l.steps + 1)

no_path(l) ==
    Locals(l.open_states, l.seen_states, "Exhausted", 0,
           "ValueError: Failed to find a path", l.expanded, l.steps + 1)

while_step(rows, l) ==
    IF l.open_states = <<>>
    THEN no_path(l)
    ELSE loop_body(rows, l, heappop_item(l.open_states), heappop_rest(l.open_states))

RECURSIVE run_to_end(_, _)
run_to_end(rows, l) ==
    IF l.outcome # "Running" THEN l ELSE run_to_end(rows, while_step(rows, l))

\* the whole call, as a function of its arguments
shortest_path(rows, ultra) == run_to_end(rows, shortest_path_entry(rows, ultra))

(***************************************************************************)
(* The inputs: Day17._parse_input builds the grid, _solve_part1 and         *)
(* _solve_part2 choose the mode.                                            *)
(***************************************************************************)
RectGrids(w, h, costs) == [1..h -> [1..w -> costs]]

SmallGrids ==
    UNION {RectGrids(w, h, 1..MaxCost) :
             <<w, h>> \in {s \in (1..MaxCells) \X (1..MaxCells) : s[1] * s[2] <= MaxCells}}

WallGrid(n, y, x1, x2, c) ==
    [yy \in 1..n |-> [xx \in 1..n |-> IF yy = y /\ x1 <= xx /\ xx <= x2 THEN c ELSE 1]]

WallGrids ==
    {WallGrid(n, w[1], w[2], w[3], c) :
        n \in 1..MaxSide, w \in (1..MaxSide) \X (1..MaxSide) \X (1..MaxSide), c \in 0..MaxCost}

RaggedGrids ==
    UNION {[1..h -> {[xx \in 1..w |-> 1] : w \in 0..MaxRagged}] : h \in 0..MaxRagged}

Grids == SmallGrids \cup WallGrids \cup RaggedGrids

Cur == Locals(open_states, seen_states, outcome, result, error, expanded, steps)

Apply(l) ==
    /\ open_states' = l.open_states
    /\ seen_states' = l.seen_states
    /\ outcome' = l.outcome
    /\ result' = l.result
    /\ error' = l.error
    /\ expanded' = l.expanded
    /\ steps' = l.steps
    /\ UNCHANGED <<grid, ultra_crucible, call, returned>>

InitOn(grids) ==
    /\ grid \in grids
    /\ ultra_crucible \in BOOLEAN
    /\ open_states = <<initial(grid, ultra_crucible)>>
    /\ seen_states = {}
    /\ outcome = "Running"
    /\ result = 0
    /\ error = ""
    /\ expanded = 0
    /\ steps = 0
    /\ call = [fn |-> "shortest_path"]
    /\ returned = <<>>

Init == InitOn(Grids)

\* lines 106-109: the popped state is an end state, its cost is returned
ReturnCost ==
    /\ outcome = "Running"
    /\ open_states # <<>>
    /\ is_end_state(heappop_item(open_states))
    /\ Apply(while_step(grid, Cur))

\* lines 106-112: the popped state's key was seen, continue
SkipSeen ==
    /\ outcome = "Running"
    /\ open_states # <<>>
    /\ ~is_end_state(heappop_item(open_states))
    /\ seen_key(heappop_item(open_states)) \in seen_states
    /\ Apply(while_step(grid, Cur))

\* lines 106-117: the popped state is marked seen and its neighbours are pushed
Expand ==
    /\ outcome = "Running"
    /\ open_states # <<>>
    /\ ~is_end_state(heappop_item(open_states))
    /\ seen_key(heappop_item(open_states)) \notin seen_states
    /\ Apply(while_step(grid, Cur))

\* line 119: the loop ended with no end state popped
RaiseNoPath ==
    /\ outcome = "Running"
    /\ open_states = <<>>
    /\ Apply(while_step(grid, Cur))

Next == ReturnCost \/ SkipSeen \/ Expand \/ RaiseNoPath

Spec == Init /\ [][Next]_vars

(***************************************************************************)
(* The same call on more inputs: the grids above, corridors one or two      *)
(* cells wide and long enough for a run of MAX_ULTRA_STRAIGHT_LINE steps    *)
(* to end inside the grid, and open grids of ones one cell larger than the  *)
(* walled squares, on which extended mode reaches the destination both      *)
(* after short and after long enough runs.                                  *)
(***************************************************************************)
CorridorGrids ==
    {[y \in 1..h |-> [x \in 1..w |-> 1]] : h \in 1..2, w \in 1..MaxLine}
        \cup {[y \in 1..h |-> [x \in 1..w |-> 1]] : h \in 1..MaxLine, w \in 1..2}

OpenGrids ==
    {[y \in 1..h |-> [x \in 1..w |-> 1]] : h \in 1..(MaxSide + 1), w \in 1..(MaxSide + 1)}

WideInit == InitOn(Grids \cup CorridorGrids \cup OpenGrids)

WideSpec == WideInit /\ [][Next]_vars

(***************************************************************************)
(* The same loop with the choice among equal estimates left open: a pop     *)
(* may take any state whose estimate is minimal in open_states, where       *)
(* heapq takes the one its sift order puts first.                           *)
(***************************************************************************)
MinimalIndexes(heap) ==
    {i \in 1..Len(heap) : \A j \in 1..Len(heap) : ~lt(heap[j], heap[i])}

RemoveAt(heap, i) == SubSeq(heap, 1, i - 1) \o SubSeq(heap, i + 1, Len(heap))

\* lines 106-117 with any minimal state popped
PopAnyMinimal ==
    /\ outcome = "Running"
    /\ open_states # <<>>
    /\ \E i \in MinimalIndexes(open_states) :
          Apply(loop_body(grid, Cur, open_states[i], RemoveAt(open_states, i)))

TieNext == PopAnyMinimal \/ RaiseNoPath

\* every choice among equal estimates is followed, on the grids of few cells
TieInit == InitOn(SmallGrids)

TieSpec == TieInit /\ [][TieNext]_vars

(***************************************************************************)
(* The test input of day 17 (the file solve_part1(testing=True) and         *)
(* solve_part2(testing=True) read): the 13 x 13 example of the puzzle.      *)
(***************************************************************************)
TestGrid ==
    <<<<2, 4, 1, 3, 4, 3, 2, 3, 1, 1, 3, 2, 3>>,
      <<3, 2, 1, 5, 4, 5, 3, 5, 3, 5, 6, 2, 3>>,
      <<3, 2, 5, 5, 2, 4, 5, 6, 5, 4, 2, 5, 4>>,
      <<3, 4, 4, 6, 5, 8, 5, 8, 4, 5, 4, 5, 2>>,
      <<4, 5, 4, 6, 6, 5, 7, 8, 6, 7, 5, 3, 6>>,
      <<1, 4, 3, 8, 5, 9, 8, 7, 9, 8, 4, 5, 4>>,
      <<4, 4, 5, 7, 8, 7, 6, 9, 8, 7, 7, 6, 6>>,
      <<3, 6, 3, 7, 8, 7, 7, 9, 7, 9, 6, 5, 3>>,
      <<4, 6, 5, 4, 9, 6, 7, 9, 8, 6, 8, 8, 7>>,
      <<4, 5, 6, 4, 6, 7, 9, 9, 8, 6, 4, 5, 3>>,
      <<1, 2, 2, 4, 6, 8, 6, 8, 6, 5, 5, 6, 3>>,
      <<2, 5, 4, 6, 5, 4, 8, 8, 8, 7, 7, 3, 5>>,
      <<4, 3, 2, 2, 6, 7, 4, 6, 5, 5, 5, 3, 3>>>>

\* the k x k top-left corner of a grid
Corner(rows, k) == [y \in 1..k |-> [x \in 1..k |-> rows[y][x]]]

\* the test input, and its small corners as inputs of their own
TestGrids == {TestGrid} \cup {Corner(TestGrid, k) : k \in 1..MaxSide}

TestInit == InitOn(TestGrids)

TestSpec == TestInit /\ [][Next]_vars

(***************************************************************************)
(* A caller that searches the same Grid object twice, once in each mode:    *)
(* when the first call has ended, shortest_path is called again on the      *)
(* grid as the first call left it, with the other value of ultra_crucible.  *)
(* The second call builds its own open_states and seen_states (lines        *)
(* 102-103); what the first call ended with is kept in returned.            *)
(***************************************************************************)
SearchAgain ==
    /\ outcome # "Running"
    /\ returned = <<>>
    /\ returned' = <<[ultra_crucible |-> ultra_crucible, outcome |-> outcome,
                      result |-> result, error |-> error, rows |-> grid]>>
    /\ ultra_crucible' = ~ultra_crucible
    /\ LET l == shortest_path_entry(grid, ~ultra_crucible)
       IN  /\ open_states' = l.open_states
           /\ seen_states' = l.seen_states
           /\ outcome' = l.outcome
           /\ result' = l.result
           /\ error' = l.error
           /\ expanded' = l.expanded
           /\ steps' = l.steps
    /\ UNCHANGED <<grid, call>>

DayNext == Next \/ SearchAgain

DaySpec == Init /\ [][DayNext]_vars

(***************************************************************************)
(* Calls of single functions of the repository, each on its own: call holds *)
(* the function's name and arguments, the action of the function appends    *)
(* what it returns to returned.  No search runs in these specifications.    *)
(***************************************************************************)
NotSearching ==
    /\ ultra_crucible = FALSE
    /\ open_states = <<>>
    /\ seen_states = {}
    /\ outcome = "NotCalled"
    /\ result = 0
    /\ error = ""
    /\ expanded = 0
    /\ steps = 0

Return(value) ==
    /\ returned = <<>>
    /\ returned' = <<value>>
    /\ UNCHANGED <<grid, ultra_crucible, open_states, seen_states, outcome, result,
                   error, expanded, steps, call>>

\* a grid of w x h digits in which neighbouring cells and opposite edges differ
IndexGrid(w, h) == [y \in 1..h |-> [x \in 1..w |-> (((y - 1) * w + (x - 1)) % 9) + 1]]

LookupGrids == {IndexGrid(w, h) : w \in 1..MaxSide, h \in 1..MaxSide} \cup RaggedGrids

LongestRow(rows) ==
    IF rows = <<>> THEN 0
    ELSE CHOOSE n \in {Len(rows[i]) : i \in 1..Len(rows)} :
             \A i \in 1..Len(rows) : Len(rows[i]) <= n

\* the coordinates up to one step further out than the grid is long, on
\* either side of 0
LookupCoords(rows) ==
    {Coord(x, y) : x \in (0 - LongestRow(rows) - 1)..(LongestRow(rows) + 1),
                   y \in (0 - Len(rows) - 1)..(Len(rows) + 1)}

GridInit ==
    /\ grid \in LookupGrids
    /\ call \in {[fn |-> "Grid.__getitem__", coord |-> c] : c \in LookupCoords(grid)}
    /\ returned = <<>>
    /\ NotSearching

\* grid[coord]
Lookup ==
    /\ call.fn = "Grid.__getitem__"
    /\ Return(Grid_getitem(grid, call.coord))

GridSpec == GridInit /\ [][Lookup]_vars

(***************************************************************************)
(* day19.py: Range and the comparators' split_range.  An Optional is a      *)
(* sequence: <<>> is None, <<v>> is the value v.                            *)
(***************************************************************************)
\* Range(left, right); __post_init__ raises ValueError when left > right
Range(left, right) ==
    [left |-> left, right |-> right,
     raised |-> IF left > right THEN "ValueError: Invalid range" ELSE ""]

\* mutant: the first test strict
LessThan_split_range_strict(r, pivot) ==
    IF pivot < r.left
    THEN <<<<>>, <<r>>>>
    ELSE IF pivot <= r.right
    THEN <<<<Range(r.left, pivot - 1)>>, <<Range(pivot, r.right)>>>>
    ELSE <<<<r>>, <<>>>>

LessThan_split_range(r, pivot) ==
    IF pivot <= r.left
    THEN <<<<>>, <<r>>>>
    ELSE IF pivot <= r.right
    THEN <<<<Range(r.left, pivot - 1)>>, <<Range(pivot, r.right)>>>>
    ELSE <<<<r>>, <<>>>>

GreaterThan_split_range(r, pivot) ==
    IF pivot >= r.right
    THEN <<<<>>, <<r>>>>
    ELSE IF pivot >= r.left
    THEN <<<<Range(pivot + 1, r.right)>>, <<Range(r.left, pivot)>>>>
    ELSE <<<<r>>, <<>>>>

\* the valid ranges with limits in 0..MaxValue, and the pivots from one below
\* to one above them
Ranges == {Range(l, r) : <<l, r>> \in {p \in (0..MaxValue) \X (0..MaxValue) : p[1] <= p[2]}}

Pivots == (0 - 1)..(MaxValue + 1)

Day19Init ==
    /\ grid = <<>>
    /\ call \in {[fn |-> "split_range", r |-> r, pivot |-> p] : r \in Ranges, p \in Pivots}
    /\ returned = <<>>
    /\ NotSearching

\* LessThan().split_range(r, pivot)
SplitLessThan ==
    /\ call.fn = "split_range"
    /\ Return([comparator |-> "LessThan", parts |-> LessThan_split_range(call.r, call.pivot)])

\* GreaterThan().split_range(r, pivot)
SplitGreaterThan ==
    /\ call.fn = "split_range"
    /\ Return([comparator |-> "GreaterThan",
               parts |-> GreaterThan_split_range(call.r, call.pivot)])

Day19Next == SplitLessThan \/ SplitGreaterThan

Day19Spec == Day19Init /\ [][Day19Next]_vars

(***************************************************************************)
(* day5.py: IntegerRange (the half-open range(start, stop)),                *)
(* RangeMappingEntry and RangeMapping.                                      *)
(***************************************************************************)
\* IntegerRange(range(start, stop)): the dataclass itself checks nothing
IntegerRange(start, stop) == [start |-> start, stop |-> stop, raised |-> ""]

from_limits(start, stop) ==
    IF stop <= start
    THEN [start |-> start, stop |-> stop,
          raised |-> "ValueError: Invalid limits for a non-empty range"]
    ELSE IntegerRange(start, stop)

\* mutant: equal limits taken for a range
maybe_empty_or_equal(start, stop) ==
    IF start <= stop THEN <<from_limits(start, stop)>> ELSE <<>>

maybe_empty(start, stop) ==
    IF start < stop THEN <<from_limits(start, stop)>> ELSE <<>>

from_start_and_length(start, length) ==
    IF length <= 0
    THEN [start |-> start, stop |-> start + length,
          raised |-> "ValueError: Invalid length for range"]
    ELSE IntegerRange(start, start + length)

IntegerRange_offset(r, offset) == from_limits(r.start + offset, r.stop + offset)

max(a, b) == IF a >= b THEN a ELSE b

min(a, b) == IF a <= b THEN a ELSE b

\* IntegerRange.__and__
IntegerRange_and(a, b) ==
    maybe_empty(max(a.start, b.start), min(a.stop, b.stop))

\* IntegerRange.__contains__: value in range(start, stop)
IntegerRange_contains(r, value) == r.start <= value /\ value < r.stop

\* len(range(start, stop))
range_len(r) == IF r.stop > r.start THEN r.stop - r.start ELSE 0

\* the dataclass __eq__ of two IntegerRange: their range objects are equal,
\* that is both are empty or they start and stop at the same values
IntegerRange_eq(a, b) ==
    \/ range_len(a) = 0 /\ range_len(b) = 0
    \/ range_len(a) = range_len(b) /\ a.start = b.start

\* == of two Optional[IntegerRange]
Optional_eq(a, b) ==
    IF a = <<>> \/ b = <<>> THEN a = b ELSE IntegerRange_eq(a[1], b[1])

RangeMappingEntry(src, offset) == [src |-> src, offset |-> offset]

\* RangeMappingEntry.from_starts, what from_line builds an entry with
from_starts(src_start, dst_start, length) ==
    RangeMappingEntry(from_start_and_length(src_start, length), dst_start - src_start)

RangeMappingEntry_contains(entry, v) == IntegerRange_contains(entry.src, v)

RangeMappingEntry_map_value(entry, v) ==
    IF RangeMappingEntry_contains(entry, v) THEN <<v + entry.offset>> ELSE <<>>

\* mutant: the part of r before the entry's source is dropped
RangeMappingEntry_map_range_drops_left(entry, r) ==
    LET src_intersection == IntegerRange_and(entry.src, r)
    IN  IF src_intersection = <<>>
        THEN <<>>
        ELSE <<[left_unmapped |-> <<>>,
                mapped |-> IntegerRange_offset(src_intersection[1], entry.offset),
                right_unmapped |->
                    IF src_intersection[1].stop < r.stop
                    THEN <<from_limits(src_intersection[1].stop, r.stop)>>
                    ELSE <<>>]>>

\* RangeMappingEntry.map_range: None, or the tuple (left_unmapped,
\* mapped_intersection, right_unmapped)
RangeMappingEntry_map_range(entry, r) ==
    LET src_intersection == IntegerRange_and(entry.src, r)
    IN  IF src_intersection = <<>>
        THEN <<>>
        ELSE <<[left_unmapped |->
                    IF src_intersection[1].start > r.start
                    THEN <<from_limits(r.start, src_intersection[1].start)>>
                    ELSE <<>>,
                mapped |-> IntegerRange_offset(src_intersection[1], entry.offset),
                right_unmapped |->
                    IF src_intersection[1].stop < r.stop
                    THEN <<from_limits(src_intersection[1].stop, r.stop)>>
                    ELSE <<>>]>>

mapping_entry_sorting_key(entry) == entry.src.start

\* list.sort(key=...): a stable sort, here by insertion
RECURSIVE insert_sorted(_, _)
insert_sorted(sorted, entry) ==
    IF sorted = <<>>
    THEN <<entry>>
    ELSE IF mapping_entry_sorting_key(sorted[Len(sorted)]) <= mapping_entry_sorting_key(entry)
    THEN Append(sorted, entry)
    ELSE Append(insert_sorted(SubSeq(sorted, 1, Len(sorted) - 1), entry), sorted[Len(sorted)])

RECURSIVE sort_entries(_)
sort_entries(entries) ==
    IF entries = <<>>
    THEN <<>>
    ELSE insert_sorted(sort_entries(SubSeq(entries, 1, Len(entries) - 1)),
                       entries[Len(entries)])

\* RangeMapping(entries): __post_init__ sorts the entries; the model's
\* RangeMapping is its sorted list of entries
RangeMapping(entries) == sort_entries(entries)

\* bisect.bisect_right(a, x, key=mapping_entry_sorting_key), 0-based
RECURSIVE bisect_right(_, _, _, _)
bisect_right(a, x, lo, hi) ==
    IF lo < hi
    THEN LET mid == (lo + hi) \div 2
         IN  IF x < mapping_entry_sorting_key(a[mid + 1])
             THEN bisect_right(a, x, lo, mid)
             ELSE bisect_right(a, x, mid + 1, hi)
    ELSE lo

\* RangeMapping._closest_le_entry_index
closest_le_entry_index(entries, v) ==
    LET idx == bisect_right(entries, v, 0, Len(entries))
    IN  IF idx # 0 THEN <<idx - 1>> ELSE <<>>

\* RangeMapping._get_entry_for_value
get_entry_for_value(entries, v) ==
    LET closest_le_idx == closest_le_entry_index(entries, v)
    IN  IF closest_le_idx # <<>> /\ RangeMappingEntry_contains(entries[closest_le_idx[1] + 1], v)
        THEN <<entries[closest_le_idx[1] + 1]>>
        ELSE <<>>

\* the for loop of RangeMapping.map_range from the entry at 0-based index i on
RECURSIVE map_range_loop(_, _, _, _)
map_range_loop(entries, i, values, mapped_ranges) ==
    IF i >= Len(entries)
    THEN [values |-> <<values>>, mapped_ranges |-> mapped_ranges]
    ELSE LET entry == entries[i + 1]
             m == RangeMappingEntry_map_range(entry, values)
         IN  IF m = <<>>
             THEN IF entry.src.start >= values.stop
                  THEN [values |-> <<values>>, mapped_ranges |-> mapped_ranges]
                  ELSE map_range_loop(entries, i + 1, values, mapped_ranges)
             ELSE LET with_left ==
                          IF m[1].left_unmapped # <<>>
                          THEN Append(mapped_ranges, m[1].left_unmapped[1])
                          ELSE mapped_ranges
                      with_mapped == Append(with_left, m[1].mapped)
                  IN  IF m[1].right_unmapped = <<>>
                      THEN [values |-> <<>>, mapped_ranges |-> with_mapped]
                      ELSE map_range_loop(entries, i + 1, m[1].right_unmapped[1], with_mapped)

RangeMapping_map_range(entries, values) ==
    LET idx == closest_le_entry_index(entries, values.start)
        leftmost_idx == IF idx = <<>> THEN 0 ELSE idx[1]
        out == map_range_loop(entries, leftmost_idx, values, <<>>)
    IN  IF out.values # <<>>
        THEN Append(out.mapped_ranges, out.values[1])
        ELSE out.mapped_ranges

RangeMapping_map_value(entries, v) ==
    LET entry == get_entry_for_value(entries, v)
        res == IF entry # <<>> THEN RangeMappingEntry_map_value(entry[1], v) ELSE <<>>
    IN  IF res # <<>> THEN res[1] ELSE v

\* the integers of a range
RangeValues(r) == r.start..(r.stop - 1)

\* the entries whose source lies in 0..MaxValue and whose destination starts
\* at either end of it
Entries ==
    {from_starts(t[1], t[2], t[3]) :
        t \in {u \in (0..MaxValue) \X {0, MaxValue} \X (1..MaxValue) : u[1] + u[3] <= MaxValue}}

PairwiseDisjoint(entries) ==
    \A i, j \in 1..Len(entries) :
        i # j => RangeValues(entries[i].src) \cap RangeValues(entries[j].src) = {}

\* the lists of entries a RangeMapping is built from, in any order
EntryLists ==
    {es \in UNION {[1..n -> Entries] : n \in 0..MaxEntries} : PairwiseDisjoint(es)}

\* the non-empty ranges from one below 0 to one above MaxValue
InputRanges ==
    {from_limits(p[1], p[2]) :
        p \in {q \in ((0 - 1)..(MaxValue + 1)) \X ((0 - 1)..(MaxValue + 1)) : q[1] < q[2]}}

\* every IntegerRange(range(a, b)), the empty ones too
AnyRanges == {IntegerRange(a, b) : a \in 0..MaxValue, b \in 0..MaxValue}

Day5Init ==
    /\ grid = <<>>
    /\ call \in {[fn |-> "IntegerRange.__and__", a |-> a, b |-> b] :
                     a \in AnyRanges, b \in AnyRanges}
               \cup {[fn |-> "RangeMapping.map_range", entries |-> es, values |-> r] :
                        es \in EntryLists, r \in InputRanges}
    /\ returned = <<>>
    /\ NotSearching

\* a & b
And ==
    /\ call.fn = "IntegerRange.__and__"
    /\ Return(IntegerRange_and(call.a, call.b))

\* RangeMapping(entries).map_range(values)
MapRange ==
    /\ call.fn = "RangeMapping.map_range"
    /\ Return(RangeMapping_map_range(RangeMapping(call.entries), call.values))

Day5Next == And \/ MapRange

Day5Spec == Day5Init /\ [][Day5Next]_vars

(***************************************************************************)
(* day17.py: State.__eq__ and the membership test on seen_states, each      *)
(* called on its own on two states a search of the grid creates.            *)
(***************************************************************************)
\* the states a search of rows creates out of frontier, as far as their
\* cost stays within bound
RECURSIVE created_states(_, _, _, _)
created_states(rows, bound, frontier, acc) ==
    IF frontier = {}
    THEN acc
    ELSE LET next == {t \in UNION {{neighbours(s, rows)[i] : i \in 1..Len(neighbours(s, rows))} :
                                       s \in frontier} :
                        t.cost <= bound /\ t \notin acc}
         IN  created_states(rows, bound, next, acc \cup next)

EqGrids == RectGrids(2, 2, 1..MaxCost)

EqStates(rows, ultra) ==
    created_states(rows, MaxPathCost, {initial(rows, ultra)}, {initial(rows, ultra)})

EqInit ==
    /\ grid \in EqGrids
    /\ call \in {[fn |-> f, a |-> p[1], b |-> p[2]] :
                    f \in {"State.__eq__", "seen_key in seen_states"},
                    p \in UNION {EqStates(grid, u) \X EqStates(grid, u) : u \in BOOLEAN}}
    /\ returned = <<>>
    /\ NotSearching

\* a == b
StateEq ==
    /\ call.fn = "State.__eq__"
    /\ Return(eq(call.a, call.b))

\* lines 111 and 114: b.seen_key() in seen_states, a.seen_key() having been added
KeySeen ==
    /\ call.fn = "seen_key in seen_states"
    /\ Return(seen_key(call.b) \in ({} \cup {seen_key(call.a)}))

EqNext == StateEq \/ KeySeen

EqSpec == EqInit /\ [][EqNext]_vars

\* Every step of Next is one evaluation of the loop condition and adds one to
\* steps, and Next is enabled exactly while the call is running.
LoopStep == outcome = "Running" /\ steps' = steps + 1

\* The call is one synchronous computation: while it is running it keeps
\* taking steps.  (WF_vars(Next), written over the step counter.)
FairSpec == Spec /\ WF_steps(LoopStep)

(***************************************************************************)
(* The routes the claims speak of, defined from their own words and not     *)
(* from the search: a route starts at (0,0) with no heading, every step     *)
(* enters a neighbouring cell, never reverses, may turn only after minRun   *)
(* steps in the current heading, and pays the cost of each cell entered.    *)
(* `over` records whether the route ever took more than maxRun consecutive  *)
(* steps in one heading.                                                    *)
(***************************************************************************)
Rectangular(rows) ==
    /\ rows # <<>>
    /\ Len(rows[1]) >= 1
    /\ \A i \in 1..Len(rows) : Len(rows[i]) = Len(rows[1])

CostsWithin(rows, lo, hi) ==
    \A i \in 1..Len(rows) : \A j \in 1..Len(rows[i]) : lo <= rows[i][j] /\ rows[i][j] <= hi

RefHeadings == {"East", "North", "West", "South"}

RefOpposite(d) ==
    CASE d = "East" -> "West"
      [] d = "West" -> "East"
      [] d = "North" -> "South"
      [] d = "South" -> "North"
      [] OTHER -> "Nowhere"

RefDx(d) == IF d = "East" THEN 1 ELSE IF d = "West" THEN -1 ELSE 0

RefDy(d) == IF d = "South" THEN 1 ELSE IF d = "North" THEN -1 ELSE 0

RefStart == [x |-> 0, y |-> 0, d |-> "None", r |-> 0, c |-> 0, over |-> FALSE]

RefSteps(rows, minRun, maxRun, p) ==
    {[x |-> p.x + RefDx(d), y |-> p.y + RefDy(d), d |-> d,
      r |-> IF d = p.d THEN p.r + 1 ELSE 1,
      c |-> p.c + rows[p.y + RefDy(d) + 1][p.x + RefDx(d) + 1],
      over |-> p.over \/ (d = p.d /\ p.r + 1 > maxRun)] :
        d \in {h \in RefHeadings :
                 /\ h # RefOpposite(p.d)
                 /\ (h = p.d \/ p.d = "None" \/ p.r >= minRun)
                 /\ p.x + RefDx(h) \in 0..(Len(rows[1]) - 1)
                 /\ p.y + RefDy(h) \in 0..(Len(rows) - 1)}}

RECURSIVE RefClosure(_, _, _, _, _, _, _)
RefClosure(rows, minRun, maxRun, allowOver, bound, frontier, acc) ==
    IF frontier = {}
    THEN acc
    ELSE LET next == {q \in UNION {RefSteps(rows, minRun, maxRun, p) : p \in frontier} :
                        /\ q.c <= bound
                        /\ (allowOver \/ ~q.over)
                        /\ q \notin acc}
         IN  RefClosure(rows, minRun, maxRun, allowOver, bound, next, acc \cup next)

\* the routes of total cost at most bound, each by its last configuration
RefRoutes(rows, minRun, maxRun, allowOver, bound) ==
    RefClosure(rows, minRun, maxRun, allowOver, bound, {RefStart}, {RefStart})

\* those that end acceptably: at the bottom-right cell with a run of at least minRun
RefArrivals(rows, minRun, maxRun, allowOver, bound) ==
    {p \in RefRoutes(rows, minRun, maxRun, allowOver, bound) :
        p.x = Len(rows[1]) - 1 /\ p.y = Len(rows) - 1 /\ p.r >= minRun}

RefCosts(rows, minRun, maxRun, bound) ==
    {p.c : p \in RefArrivals(rows, minRun, maxRun, FALSE, bound)}

ZeroCosts(rows) == [i \in 1..Len(rows) |-> [j \in 1..Len(rows[i]) |-> 0]]

\* is there any acceptable route at all, whatever it costs
RefRouteExists(rows, minRun, maxRun, allowOver) ==
    RefArrivals(ZeroCosts(rows), minRun, maxRun, allowOver, 0) # {}

ModeMinRun == IF ultra_crucible THEN 4 ELSE 0

ModeMaxRun == IF ultra_crucible THEN 10 ELSE 3

(***************************************************************************)
(* C1: on a rectangular grid with costs in 1..9, in either mode, a returned *)
(* value is the minimum, over the routes from (0,0) to (W-1,H-1) that obey  *)
(* the run rules and arrive with run >= minRun, of the summed costs of the  *)
(* cells entered.                                                           *)
(***************************************************************************)
C1_ReturnsMinimum ==
    (outcome = "Found" /\ Rectangular(grid) /\ CostsWithin(grid, 1, 9)) =>
        LET costs == RefCosts(grid, ModeMinRun, ModeMaxRun, result)
        IN  result \in costs /\ \A c \in costs : result <= c

\* a search that returned more than the Manhattan distance to the goal, after
\* expanding more states than the route it returned is long
C1_Witness ==
    /\ outcome = "Found" /\ Rectangular(grid) /\ CostsWithin(grid, 1, 9)
    /\ result > width(grid) + height(grid) - 2
    /\ expanded > result

(***************************************************************************)
(* C2 (as stated): on a rectangular grid of non-negative costs, cost 0      *)
(* allowed, the returned value is the minimum cost of a route that obeys    *)
(* the run rules.                                                           *)
(***************************************************************************)
C2_MinimumWithZeroCosts ==
    (outcome = "Found" /\ Rectangular(grid) /\ CostsWithin(grid, 0, 9)) =>
        \A c \in RefCosts(grid, ModeMinRun, ModeMaxRun, result) : result <= c

(***************************************************************************)
(* C2 (amended): on a rectangular grid of non-negative costs the returned   *)
(* value is the total cost of a route that obeys the run rules; it is the   *)
(* minimum when no cell costs 0.                                            *)
(***************************************************************************)
C2_ReturnsRouteCost ==
    (outcome = "Found" /\ Rectangular(grid) /\ CostsWithin(grid, 0, 9)) =>
        /\ result \in RefCosts(grid, ModeMinRun, ModeMaxRun, result)
        /\ CostsWithin(grid, 1, 9) =>
             \A c \in RefCosts(grid, ModeMinRun, ModeMaxRun, result) : result <= c

\* a grid with a cell of cost 0 on which the search returned more than the minimum
C2_Witness ==
    /\ outcome = "Found" /\ Rectangular(grid) /\ ~CostsWithin(grid, 1, 9)
    /\ result \in RefCosts(grid, ModeMinRun, ModeMaxRun, result)
    /\ \E c \in RefCosts(grid, ModeMinRun, ModeMaxRun, result) : c < result

(***************************************************************************)
(* C3: when no route that obeys the run rules reaches an acceptable goal    *)
(* state, the search never returns a cost, and it ends Exhausted with the   *)
(* error ValueError "Failed to find a path" (it does not run forever).      *)
(***************************************************************************)
AtEntry == outcome = "Running" /\ steps = 0

NoRoute == Rectangular(grid) /\ ~RefRouteExists(grid, ModeMinRun, ModeMaxRun, FALSE)

C3_NoRouteIsReported ==
    /\ [](outcome = "Found" => ~NoRoute)
    /\ (AtEntry /\ NoRoute) ~>
          (outcome = "Exhausted" /\ error = "ValueError: Failed to find a path")

\* a search that expanded several states and ended with the error, on a grid
\* that has no route
C3_Witness ==
    /\ outcome = "Exhausted" /\ error = "ValueError: Failed to find a path"
    /\ open_states = <<>>
    /\ expanded > 3
    /\ NoRoute

(***************************************************************************)
(* C4: on every finite grid, in either mode, the loop leaves Running and    *)
(* ends in Found or in Exhausted, and the number of expansions is at most   *)
(* the number of (position, heading, run length) configurations plus one.   *)
(***************************************************************************)
NumConfigurations == width(grid) * height(grid) * 4 * ModeMaxRun

C4_Terminates ==
    /\ [](expanded <= NumConfigurations + 1)
    /\ [](outcome \in {"Running", "Found", "Exhausted"})
    /\ <>(outcome \in {"Found", "Exhausted"})

\* a search that ended while the frontier still held several states, two of
\* them of the same configuration
C4_Witness ==
    /\ outcome \in {"Found", "Exhausted"}
    /\ expanded > 1
    /\ \E i, j \in 1..Len(open_states) :
          i # j /\ seen_key(open_states[i]) = seen_key(open_states[j])

(***************************************************************************)
(* C5 (as stated): an empty grid, or one whose rows have unequal lengths,   *)
(* is rejected when the grid is built, before any search step: no state is  *)
(* popped or expanded for it.                                               *)
(***************************************************************************)
C5_InvalidGridRejected ==
    ~Rectangular(grid) => (steps = 0 /\ expanded = 0 /\ outcome = "Running")

(***************************************************************************)
(* C5 (amended): the grid is built without any validation and is searched   *)
(* whatever its shape.  On a grid with no cell the initial state is popped   *)
(* and expanded, has no successor, and the search ends with the no-path      *)
(* ValueError; on a grid with rows of unequal length the width is that of    *)
(* the first row, a cell missing from a shorter row counts as off the grid,  *)
(* and the search ends with a cost or with the no-path ValueError.  No       *)
(* other error is raised.                                                    *)
(***************************************************************************)
CellExists(rows, pos) ==
    /\ 0 <= pos.y /\ pos.y < Len(rows)
    /\ 0 <= pos.x /\ pos.x < Len(rows[pos.y + 1])

C5_InvalidGridIsSearched ==
    (~Rectangular(grid) /\ outcome # "Running") =>
        /\ expanded >= 1
        /\ error = (IF outcome = "Exhausted" THEN "ValueError: Failed to find a path" ELSE "")
        /\ (width(grid) = 0 => (outcome = "Exhausted" /\ expanded = 1 /\ steps = 2))
        /\ \A k \in seen_states : k[2] # "None" => CellExists(grid, k[1])
        /\ outcome = "Found" => CellExists(grid, Coord(width(grid) - 1, height(grid) - 1))

\* a grid whose second row is shorter than its first, searched to a returned cost
C5_Witness ==
    /\ ~Rectangular(grid)
    /\ Len(grid) >= 3
    /\ Len(grid[2]) < Len(grid[1])
    /\ outcome = "Found"
    /\ expanded >= 3

(***************************************************************************)
(* C6: a route that takes more than maxRun consecutive steps in one heading *)
(* is never the one whose cost is returned.  When only such routes reach    *)
(* the destination the search reports no path; otherwise the returned cost  *)
(* is that of a route within the limit.                                     *)
(***************************************************************************)
C6_RunLimitEnforced ==
    (outcome # "Running" /\ Rectangular(grid) /\ CostsWithin(grid, 1, 9)) =>
        /\ (/\ RefRouteExists(grid, ModeMinRun, ModeMaxRun, TRUE)
            /\ ~RefRouteExists(grid, ModeMinRun, ModeMaxRun, FALSE)) => outcome = "Exhausted"
        /\ outcome = "Found" =>
             \E p \in RefArrivals(grid, ModeMinRun, ModeMaxRun, TRUE, result) :
                 ~p.over /\ p.c = result

\* a returned cost that is higher than the cost of a route that overruns the limit
C6_Witness ==
    /\ outcome = "Found" /\ Rectangular(grid) /\ CostsWithin(grid, 1, 9)
    /\ \E p \in RefArrivals(grid, ModeMinRun, ModeMaxRun, TRUE, result) :
          p.over /\ p.c < result

(***************************************************************************)
(* C10: in basic mode a 1x1 grid returns cost 0 whatever its cell holds:    *)
(* the initial state is the end state, it is returned at the first pop and  *)
(* nothing is expanded.                                                     *)
(***************************************************************************)
C10_SingleCell ==
    (Len(grid) = 1 /\ Len(grid[1]) = 1 /\ ~ultra_crucible /\ outcome # "Running") =>
        (outcome = "Found" /\ result = 0 /\ steps = 1 /\ expanded = 0 /\ seen_states = {})

\* the 1x1 grid whose cell costs more than 1, searched in basic mode
C10_Witness ==
    /\ Len(grid) = 1 /\ Len(grid[1]) = 1 /\ grid[1][1] > 1
    /\ ~ultra_crucible
    /\ outcome = "Found"

(***************************************************************************)
(* C7: for a fixed grid and mode the outcome does not depend on how ties    *)
(* between frontier states of equal estimate are broken: whichever minimal  *)
(* state each pop takes, the search ends as the call with heapq's own order *)
(* ends, with the same cost or the same no-path failure.                    *)
(***************************************************************************)
C7_TieBreakIndependent ==
    (outcome # "Running" /\ Rectangular(grid) /\ CostsWithin(grid, 1, 9)) =>
        LET ref == shortest_path(grid, ultra_crucible)
        IN  outcome = ref.outcome /\ result = ref.result /\ error = ref.error

\* a search whose tie-breaks made it expand other states than heapq's order
\* does, and that returned a cost
C7_Witness ==
    /\ outcome = "Found" /\ Rectangular(grid) /\ CostsWithin(grid, 1, 9)
    /\ seen_states # shortest_path(grid, ultra_crucible).seen_states

(***************************************************************************)
(* C8: with costs in 1..9, raising the cost of one cell (staying within     *)
(* 1..9) never makes the search return less than on the original grid and   *)
(* never changes whether a path is found.  A raise by one step is checked   *)
(* for every cell; any raise is a chain of such steps.                      *)
(***************************************************************************)
Raised(rows, i, j) == [rows EXCEPT ![i][j] = @ + 1]

C8_MonotoneInCellCost ==
    (outcome # "Running" /\ Rectangular(grid) /\ CostsWithin(grid, 1, 9)) =>
        \A i \in 1..Len(grid) : \A j \in 1..Len(grid[i]) :
            grid[i][j] < 9 =>
                LET after == shortest_path(Raised(grid, i, j), ultra_crucible)
                IN  /\ after.outcome = outcome
                    /\ outcome = "Found" => after.result >= result

\* a returned cost that raising one cell makes strictly higher
C8_Witness ==
    /\ outcome = "Found" /\ Rectangular(grid) /\ CostsWithin(grid, 1, 8)
    /\ \E i \in 1..Len(grid) : \E j \in 1..Len(grid[i]) :
          shortest_path(Raised(grid, i, j), ultra_crucible).result > result

(***************************************************************************)
(* C9 (as stated): on every grid for which both searches return a cost,     *)
(* extended mode never returns a lower cost than basic mode.                *)
(***************************************************************************)
C9_ExtendedNeverLower ==
    (outcome = "Found" /\ ultra_crucible /\ Rectangular(grid) /\ CostsWithin(grid, 1, 9)) =>
        LET basic == shortest_path(grid, FALSE)
        IN  basic.outcome = "Found" => result >= basic.result

(***************************************************************************)
(* C9 (amended): extended mode can return less than basic mode.  What holds *)
(* on every grid with costs in 1..9 is that the cost extended mode returns  *)
(* is never lower than the minimum over the routes that never reverse and   *)
(* never take more than 10 consecutive steps in one heading (extended       *)
(* mode's rules without its minimum run).                                   *)
(***************************************************************************)
C9_ExtendedAboveRelaxedMinimum ==
    (outcome = "Found" /\ ultra_crucible /\ Rectangular(grid) /\ CostsWithin(grid, 1, 9)) =>
        RefCosts(grid, 0, 10, result) # {}

\* a grid on which both modes return a cost and extended mode returns the lower one
C9_Witness ==
    /\ outcome = "Found" /\ ultra_crucible /\ Rectangular(grid) /\ CostsWithin(grid, 1, 9)
    /\ shortest_path(grid, FALSE).outcome = "Found"
    /\ result < shortest_path(grid, FALSE).result

(***************************************************************************)
(* C11: a search leaves the grid as it found it and keeps its frontier and  *)
(* visited set to itself: when the two modes are run one after the other on *)
(* the same grid, in either order, the first and the second call each end   *)
(* as a call of that mode on that grid ends when it is the only one made    *)
(* (same outcome, cost, error, and the same visited set and number of       *)
(* expansions), and the grid still holds the cells the first call was       *)
(* given.                                                                   *)
(***************************************************************************)
C11_SearchesIndependent ==
    /\ \A i \in 1..Len(returned) : returned[i].rows = grid
    /\ (returned # <<>> /\ outcome # "Running") =>
          LET first == shortest_path(grid, returned[1].ultra_crucible)
              second == shortest_path(grid, ultra_crucible)
          IN  /\ returned[1].ultra_crucible # ultra_crucible
              /\ returned[1].outcome = first.outcome
              /\ returned[1].result = first.result
              /\ returned[1].error = first.error
              /\ outcome = second.outcome
              /\ result = second.result
              /\ error = second.error
              /\ seen_states = second.seen_states
              /\ expanded = second.expanded

\* both calls returned a cost, the two costs differ, and the second call
\* expanded configurations that the first had expanded too
C11_Witness ==
    /\ returned # <<>>
    /\ outcome = "Found" /\ returned[1].outcome = "Found"
    /\ result # returned[1].result
    /\ seen_states \cap shortest_path(grid, returned[1].ultra_crucible).seen_states # {}
    /\ expanded > 3

(***************************************************************************)
(* C12: with W the length of the first row and H the number of rows, the    *)
(* lookup grid[coord] raises IndexError for every coordinate outside        *)
(* [0,W) x [0,H), a negative component included (no wrap-around to the      *)
(* opposite edge), and on a rectangular grid returns the stored cell for    *)
(* every coordinate inside.  (On a grid with rows of unequal length it      *)
(* returns the stored cell where the row has one and raises IndexError      *)
(* where the row is too short.)                                             *)
(***************************************************************************)
C12_LookupBounds ==
    returned # <<>> =>
        LET c == call.coord
            W == IF grid = <<>> THEN 0 ELSE Len(grid[1])
            H == Len(grid)
            inside == c.x \in 0..(W - 1) /\ c.y \in 0..(H - 1)
            stored == [raised |-> "", value |-> grid[c.y + 1][c.x + 1]]
        IN  /\ ~inside => returned[1].raised = "IndexError"
            /\ (inside /\ Rectangular(grid)) => returned[1] = stored
            /\ (inside /\ CellExists(grid, c)) => returned[1] = stored
            /\ (inside /\ ~CellExists(grid, c)) => returned[1].raised = "IndexError"

\* a lookup one step left of the first column that raised, on a grid whose
\* cell at the opposite edge of that row differs from the cell at its start
C12_Witness ==
    /\ returned # <<>>
    /\ Rectangular(grid)
    /\ call.coord.x = 0 - 1 /\ call.coord.y \in 0..(Len(grid) - 1)
    /\ grid[call.coord.y + 1][Len(grid[1])] # grid[call.coord.y + 1][1]
    /\ returned[1].raised = "IndexError"

(***************************************************************************)
(* C13: on the 13 x 13 test grid the search ends with a returned cost,      *)
(* which is 102 in basic mode (part 1) and 94 in extended mode (part 2).    *)
(***************************************************************************)
C13_TestGridResults ==
    (grid = TestGrid /\ outcome # "Running") =>
        /\ outcome = "Found"
        /\ result = (IF ultra_crucible THEN 94 ELSE 102)

\* the extended-mode search of the test grid, ended after several hundred pops
C13_Witness ==
    /\ grid = TestGrid
    /\ ultra_crucible
    /\ outcome = "Found"
    /\ steps > 500

(***************************************************************************)
(* C14: for an inclusive Range r and a pivot, LessThan.split_range returns  *)
(* (the values of r below the pivot, the values of r at or above it) and    *)
(* GreaterThan.split_range returns (the values of r above the pivot, the    *)
(* values at or below it), each part a valid Range of exactly those values, *)
(* or None when there are none; the parts are disjoint and together are r.  *)
(***************************************************************************)
\* the part opt holds exactly the values of the set vals
PartIs(opt, vals) ==
    IF vals = {}
    THEN opt = <<>>
    ELSE /\ opt # <<>>
         /\ opt[1].raised = ""
         /\ opt[1].left <= opt[1].right
         /\ opt[1].left..opt[1].right = vals

C14_SplitRange ==
    returned # <<>> =>
        LET all == call.r.left..call.r.right
            first == returned[1].parts[1]
            second == returned[1].parts[2]
        IN  IF returned[1].comparator = "LessThan"
            THEN /\ PartIs(first, {v \in all : v < call.pivot})
                 /\ PartIs(second, {v \in all : v >= call.pivot})
            ELSE /\ PartIs(first, {v \in all : v > call.pivot})
                 /\ PartIs(second, {v \in all : v <= call.pivot})

\* a split by GreaterThan at the range's left limit: one value stays behind
C14_Witness ==
    /\ returned # <<>>
    /\ returned[1].comparator = "GreaterThan"
    /\ call.pivot = call.r.left
    /\ call.r.left < call.r.right
    /\ returned[1].parts[2] = <<Range(call.r.left, call.r.left)>>

(***************************************************************************)
(* C15: a & b of two half-open IntegerRange is the range of exactly the     *)
(* integers that are in both, None when there is none (the ranges are       *)
(* disjoint, or adjacent, or one is empty), and b & a is equal to it.       *)
(***************************************************************************)
C15_Intersection ==
    (returned # <<>> /\ call.fn = "IntegerRange.__and__") =>
        LET both == RangeValues(call.a) \cap RangeValues(call.b)
            out == returned[1]
        IN  /\ both = {} => out = <<>>
            /\ both # {} =>
                  /\ out # <<>>
                  /\ out[1].raised = ""
                  /\ out[1].start < out[1].stop
                  /\ RangeValues(out[1]) = both
            /\ Optional_eq(out, IntegerRange_and(call.b, call.a))

\* two non-empty ranges, the second starting where the first stops: None
C15_Witness ==
    /\ returned # <<>> /\ call.fn = "IntegerRange.__and__"
    /\ call.a.start < call.a.stop
    /\ call.b.start < call.b.stop
    /\ call.a.stop = call.b.start
    /\ returned[1] = <<>>

(***************************************************************************)
(* C16: for a RangeMapping whose entries have pairwise disjoint sources and *)
(* a non-empty range r, map_range(r) returns non-empty ranges whose values, *)
(* read in the order returned, are map_value(v) for v = r.start, r.start+1, *)
(* ..., r.stop-1: each v once (the lengths add up to the length of r), in   *)
(* ascending order of v, where map_value(v) is v shifted by the offset of   *)
(* the entry whose source holds v, and v itself when no entry does.         *)
(***************************************************************************)
\* the integers of a range, in order
RangeSeq(r) == [i \in 1..range_len(r) |-> r.start + i - 1]

RECURSIVE Flatten(_)
Flatten(ranges) ==
    IF ranges = <<>> THEN <<>> ELSE RangeSeq(Head(ranges)) \o Flatten(Tail(ranges))

RECURSIVE TotalLength(_)
TotalLength(ranges) ==
    IF ranges = <<>> THEN 0 ELSE range_len(Head(ranges)) + TotalLength(Tail(ranges))

\* v shifted by the entry that holds it, from the list as the caller gave it
RefMapValue(entries, v) ==
    IF \E i \in 1..Len(entries) : v \in RangeValues(entries[i].src)
    THEN v + entries[CHOOSE i \in 1..Len(entries) : v \in RangeValues(entries[i].src)].offset
    ELSE v

C16_MapRange ==
    (returned # <<>> /\ call.fn = "RangeMapping.map_range") =>
        LET out == returned[1]
            mapping == RangeMapping(call.entries)
            r == call.values
        IN  /\ \A i \in 1..Len(out) : out[i].raised = "" /\ out[i].start < out[i].stop
            /\ TotalLength(out) = range_len(r)
            /\ Flatten(out) =
                   [i \in 1..range_len(r) |-> RangeMapping_map_value(mapping, r.start + i - 1)]
            /\ \A v \in RangeValues(r) :
                   RangeMapping_map_value(mapping, v) = RefMapValue(call.entries, v)

\* a range that starts before the first entry, crosses two entries given in
\* descending order of their sources, and ends beyond the second
C16_Witness ==
    /\ returned # <<>> /\ call.fn = "RangeMapping.map_range"
    /\ Len(call.entries) = 2
    /\ call.entries[1].src.start > call.entries[2].src.start
    /\ Len(returned[1]) >= 4
    /\ returned[1][2].start # call.entries[2].src.start

(***************************************************************************)
(* The state the next pass of the loop pops.  Every state a search creates  *)
(* is the initial state or a neighbour of a state that was popped, so what  *)
(* holds of every popped state and of its neighbours holds of every state   *)
(* created.                                                                 *)
(***************************************************************************)
Popping == outcome = "Running" /\ open_states # <<>>

Popped == heappop_item(open_states)

SeqRange(q) == {q[i] : i \in 1..Len(q)}

RefLeft(d) ==
    CASE d = "East" -> "North"
      [] d = "North" -> "West"
      [] d = "West" -> "South"
      [] d = "South" -> "East"

RefRight(d) ==
    CASE d = "East" -> "South"
      [] d = "South" -> "West"
      [] d = "West" -> "North"
      [] d = "North" -> "East"

\* pos is a cell of the grid: inside [0,W) x [0,H), W the length of the first
\* row, and present in its row
RefOnGrid(rows, pos) ==
    /\ rows # <<>>
    /\ pos.x \in 0..(Len(rows[1]) - 1)
    /\ pos.y \in 0..(Len(rows) - 1)
    /\ pos.x < Len(rows[pos.y + 1])

\* the cell k steps back from pos against the heading d
RefBack(pos, d, k) == [x |-> pos.x - k * RefDx(d), y |-> pos.y - k * RefDy(d)]

\* the cell one step on from pos in the heading d
RefAhead(pos, d) == [x |-> pos.x + RefDx(d), y |-> pos.y + RefDy(d)]

(***************************************************************************)
(* C17: the initial state (no last heading) offers all four headings; any   *)
(* other state offers exactly three: the left turn, straight on and the     *)
(* right turn of its last heading.  Every successor lies one step from its  *)
(* parent in an offered heading, and never in the heading opposite to the   *)
(* parent's last heading.                                                   *)
(***************************************************************************)
C17_NoReversal ==
    Popping =>
        LET s == Popped
            dirs == possible_directions(s)
            succ == neighbours(s, grid)
        IN  /\ s.last_direction = "None" =>
                  (s = initial(grid, ultra_crucible) /\ Len(dirs) = 4
                     /\ SeqRange(dirs) = RefHeadings)
            /\ s.last_direction # "None" =>
                  /\ Len(dirs) = 3
                  /\ SeqRange(dirs) = {RefLeft(s.last_direction), s.last_direction,
                                        RefRight(s.last_direction)}
                  /\ RefOpposite(s.last_direction) \notin SeqRange(dirs)
            /\ \A i \in 1..Len(succ) :
                  /\ succ[i].last_direction \in SeqRange(dirs)
                  /\ succ[i].last_direction # RefOpposite(s.last_direction)
                  /\ succ[i].pos = RefAhead(s.pos, succ[i].last_direction)
                  /\ succ[i].pos # RefBack(s.pos, s.last_direction, 1)

\* a popped state in the middle of the grid: its three successors are all
\* on the grid, the cell behind it is on the grid too and is not entered
C17_Witness ==
    /\ Popping
    /\ Popped.last_direction # "None"
    /\ Len(neighbours(Popped, grid)) = 3
    /\ RefOnGrid(grid, RefBack(Popped.pos, Popped.last_direction, 1))
    /\ seen_key(Popped) \notin seen_states

(***************************************************************************)
(* C18: in every state a search creates the run length is the number of     *)
(* most recent steps taken in the last heading: 0 in the initial state and  *)
(* only there, parent + 1 in a straight successor, 1 in a turning           *)
(* successor; the straight successor is there exactly when parent + 1 is at *)
(* most maxRun (3 basic, 10 extended) and the cell ahead is on the grid.    *)
(* So 0 <= run <= maxRun everywhere, and the run cells behind a state, in   *)
(* a straight line against its heading, are all cells of the grid.          *)
(***************************************************************************)
C18_RunLength ==
    Popping =>
        LET s == Popped
            succ == neighbours(s, grid)
            maxRun == IF ultra_crucible THEN 10 ELSE 3
            straight == {i \in 1..Len(succ) : succ[i].last_direction = s.last_direction}
        IN  /\ s.repeated_last_direction \in 0..maxRun
            /\ (s.last_direction = "None") <=> (s.repeated_last_direction = 0)
            /\ s.last_direction # "None" =>
                  \A k \in 0..s.repeated_last_direction :
                      RefOnGrid(grid, RefBack(s.pos, s.last_direction, k))
            /\ \A i \in 1..Len(succ) :
                  /\ succ[i].repeated_last_direction =
                        (IF i \in straight THEN s.repeated_last_direction + 1 ELSE 1)
                  /\ succ[i].repeated_last_direction \in 1..maxRun
            /\ s.last_direction # "None" =>
                  ((straight # {}) <=>
                      (/\ s.repeated_last_direction + 1 <= maxRun
                       /\ RefOnGrid(grid, RefAhead(s.pos, s.last_direction))))

\* an extended-mode state with a run of 10 and a cell of the grid ahead of it:
\* the step straight on is refused
C18_Witness ==
    /\ Popping
    /\ ultra_crucible
    /\ Popped.repeated_last_direction = 10
    /\ RefOnGrid(grid, RefAhead(Popped.pos, Popped.last_direction))
    /\ \A i \in 1..Len(neighbours(Popped, grid)) :
          neighbours(Popped, grid)[i].last_direction # Popped.last_direction

(***************************************************************************)
(* C19: in extended mode a state with a last heading and a run below 4 has  *)
(* no turning successor, so every turn follows a straight segment of 4 to   *)
(* 10 steps.  From the initial state, from an extended-mode state with a    *)
(* run of at least 4, and from every basic-mode state, each turn whose cell *)
(* is on the grid is a successor: in basic mode no turn is refused because  *)
(* of the run length.                                                       *)
(***************************************************************************)
\* the headings that are a turn out of the state s
RefTurns(s) ==
    IF s.last_direction = "None"
    THEN RefHeadings
    ELSE {RefLeft(s.last_direction), RefRight(s.last_direction)}

C19_MinRunBeforeTurn ==
    Popping =>
        LET s == Popped
            succ == neighbours(s, grid)
            turned == {i \in 1..Len(succ) : succ[i].last_direction # s.last_direction}
            held == ultra_crucible /\ s.last_direction # "None" /\ s.repeated_last_direction < 4
        IN  /\ held => turned = {}
            /\ (ultra_crucible /\ s.last_direction # "None" /\ turned # {}) =>
                  s.repeated_last_direction \in 4..10
            /\ ~held =>
                  \A d \in RefTurns(s) :
                      RefOnGrid(grid, RefAhead(s.pos, d)) =>
                          \E i \in turned :
                              /\ succ[i].last_direction = d
                              /\ succ[i].repeated_last_direction = 1

\* an extended-mode state after a run of 3 with a cell of the grid beside it:
\* the turn into that cell is refused, the step straight on is taken
C19_Witness ==
    /\ Popping
    /\ ultra_crucible
    /\ Popped.repeated_last_direction = 3
    /\ RefOnGrid(grid, RefAhead(Popped.pos, RefRight(Popped.last_direction)))
    /\ Len(neighbours(Popped, grid)) = 1
    /\ neighbours(Popped, grid)[1].last_direction = Popped.last_direction

(***************************************************************************)
(* C20: in extended mode a state at the destination (W-1,H-1) with a run    *)
(* below 4 is not a goal: the pass that pops it returns nothing and treats  *)
(* it as any other state (skipped if its configuration was seen, otherwise  *)
(* marked seen and expanded).  A pass returns only when the popped state is *)
(* at the destination and, in extended mode, has a run of at least 4, and   *)
(* it returns that state's cost.  On a 1 x 1 grid extended mode expands the *)
(* initial state, finds no successor and ends with the no-path error.       *)
(***************************************************************************)
RefDestination == [x |-> Len(grid[1]) - 1, y |-> Len(grid) - 1]

C20_ShortArrivalIsNoGoal ==
    /\ [][(Popping /\ ultra_crucible /\ grid # <<>> /\ Popped.pos = RefDestination
              /\ Popped.repeated_last_direction < 4) =>
            /\ outcome' = "Running"
            /\ IF <<Popped.pos, Popped.last_direction, Popped.repeated_last_direction>>
                      \in seen_states
               THEN expanded' = expanded /\ seen_states' = seen_states
               ELSE /\ expanded' = expanded + 1
                    /\ seen_states' = seen_states \cup
                          {<<Popped.pos, Popped.last_direction, Popped.repeated_last_direction>>}
                    /\ Len(open_states') =
                          Len(open_states) - 1 + Len(neighbours(Popped, grid))]_vars
    /\ [][(outcome = "Running" /\ outcome' = "Found") =>
            /\ Popping /\ grid # <<>>
            /\ Popped.pos = RefDestination
            /\ ultra_crucible => Popped.repeated_last_direction \in 4..10
            /\ result' = Popped.cost]_vars
    /\ []((ultra_crucible /\ Len(grid) = 1 /\ Len(grid[1]) = 1 /\ outcome # "Running") =>
            /\ outcome = "Exhausted"
            /\ error = "ValueError: Failed to find a path"
            /\ expanded = 1
            /\ steps = 2)

\* an extended-mode search that expanded a state at the destination with a
\* run below 4 and went on to return a cost
C20_Witness ==
    /\ ultra_crucible
    /\ outcome = "Found"
    /\ \E k \in seen_states : k[1] = RefDestination /\ k[2] # "None" /\ k[3] < 4

(***************************************************************************)
(* C21 (as stated): every state in the frontier has a position inside       *)
(* [0,W) x [0,H), W the length of the first row and H the number of rows.   *)
(***************************************************************************)
\* pos lies inside [0,W) x [0,H)
RefInside(rows, pos) ==
    /\ pos.y \in 0..(Len(rows) - 1)
    /\ pos.x \in 0..((IF rows = <<>> THEN 0 ELSE Len(rows[1])) - 1)

C21_FrontierInsideGrid ==
    \A i \in 1..Len(open_states) : RefInside(grid, open_states[i].pos)

(***************************************************************************)
(* C21 (amended): every successor the expansion rule produces has a         *)
(* position inside [0,W) x [0,H), and no successor is produced for a        *)
(* heading whose next cell is outside it (a negative x or y reached by      *)
(* moving West or North from an edge included).  So every state in the      *)
(* frontier other than the initial state is inside, and the initial state,  *)
(* at (0,0), is inside exactly when the grid has a cell (W >= 1 and         *)
(* H >= 1); on a grid with no cell it is outside and has no successor.      *)
(***************************************************************************)
C21_SuccessorsInsideGrid ==
    /\ \A i \in 1..Len(open_states) :
          \/ RefInside(grid, open_states[i].pos)
          \/ /\ open_states[i].last_direction = "None"
             /\ open_states[i].pos = [x |-> 0, y |-> 0]
             /\ (grid = <<>> \/ grid[1] = <<>>)
    /\ (grid # <<>> /\ grid[1] # <<>>) => C21_FrontierInsideGrid
    /\ Popping =>
          LET s == Popped
              succ == neighbours(s, grid)
          IN  /\ \A i \in 1..Len(succ) : RefInside(grid, succ[i].pos)
              /\ \A d \in RefHeadings :
                    ~RefInside(grid, RefAhead(s.pos, d)) =>
                        \A i \in 1..Len(succ) : succ[i].last_direction # d
              /\ ~RefInside(grid, s.pos) => succ = <<>>

\* a state on the west or the north edge that is expanded with West or North
\* among its headings: the step to the negative coordinate is not a successor
C21_Witness ==
    /\ Popping
    /\ seen_key(Popped) \notin seen_states
    /\ ~is_end_state(Popped)
    /\ Popped.last_direction # "None"
    /\ \E d \in SeqRange(possible_directions(Popped)) \cap {"West", "North"} :
          /\ (RefAhead(Popped.pos, d).x = -1 \/ RefAhead(Popped.pos, d).y = -1)
          /\ \A i \in 1..Len(neighbours(Popped, grid)) :
                neighbours(Popped, grid)[i].last_direction # d
    /\ Len(neighbours(Popped, grid)) >= 1

(***************************************************************************)
(* C22: a state has no last heading exactly when it is the initial state    *)
(* (position (0,0), run 0, cost 0).  Every successor has one of the four    *)
(* headings and a run of at least 1.  The initial state is in the frontier  *)
(* once when the search starts, leaves it with the first pop and never      *)
(* enters it again.                                                         *)
(***************************************************************************)
\* s is the initial state of the search
RefIsInitial(s) ==
    /\ s.pos = [x |-> 0, y |-> 0]
    /\ s.repeated_last_direction = 0
    /\ s.cost = 0
    /\ s.last_direction = "None"

C22_OnlyInitialHasNoHeading ==
    /\ \A i \in 1..Len(open_states) :
          /\ (open_states[i].last_direction = "None") <=> RefIsInitial(open_states[i])
          /\ open_states[i].last_direction # "None" =>
                /\ open_states[i].last_direction \in RefHeadings
                /\ open_states[i].repeated_last_direction >= 1
    /\ Cardinality({i \in 1..Len(open_states) : open_states[i].last_direction = "None"})
          = (IF steps = 0 THEN 1 ELSE 0)
    /\ steps = 0 => (Len(open_states) = 1 /\ RefIsInitial(open_states[1]))
    /\ \A k \in seen_states : (k[2] = "None") <=> (k = <<[x |-> 0, y |-> 0], "None", 0>>)
    /\ Popping =>
          \A i \in 1..Len(neighbours(Popped, grid)) :
              /\ neighbours(Popped, grid)[i].last_direction \in RefHeadings
              /\ neighbours(Popped, grid)[i].repeated_last_direction >= 1

\* the search has come back to (0,0): a state there with a heading is in the
\* frontier, and it is not the initial state, which was popped long before
C22_Witness ==
    /\ steps >= 1
    /\ outcome = "Running"
    /\ \E i \in 1..Len(open_states) :
          /\ open_states[i].pos = [x |-> 0, y |-> 0]
          /\ open_states[i].last_direction \in RefHeadings
          /\ open_states[i].repeated_last_direction >= 1
          /\ open_states[i].cost > 0

(***************************************************************************)
(* C23: a successor's cost is its parent's cost plus the cost of the cell   *)
(* it enters.  Cell costs are not negative, so no cost is negative and a    *)
(* successor never costs less than its parent; and the cost of a state is   *)
(* the sum of the costs of the cells entered on a route from (0,0) (the     *)
(* start cell not counted) that obeys the run rules and ends in the         *)
(* state's position, heading and run.                                       *)
(***************************************************************************)
\* the cost of the cell at pos
RefCellCost(rows, pos) == rows[pos.y + 1][pos.x + 1]

C23_CostAccumulates ==
    /\ \A i \in 1..Len(open_states) : open_states[i].cost >= 0
    /\ Popping =>
          LET s == Popped
              succ == neighbours(s, grid)
          IN  /\ \A i \in 1..Len(succ) :
                    /\ succ[i].cost = s.cost + RefCellCost(grid, succ[i].pos)
                    /\ succ[i].cost >= s.cost
              /\ Rectangular(grid) =>
                    [x |-> s.pos.x, y |-> s.pos.y, d |-> s.last_direction,
                     r |-> s.repeated_last_direction, c |-> s.cost, over |-> FALSE]
                        \in RefRoutes(grid, ModeMinRun, ModeMaxRun, FALSE, s.cost)

\* a state that has paid 3 or more over two or more steps is expanded into a
\* cell that costs 2
C23_Witness ==
    /\ Popping
    /\ seen_key(Popped) \notin seen_states
    /\ ~is_end_state(Popped)
    /\ Popped.cost >= 3
    /\ Popped.repeated_last_direction >= 2
    /\ \E i \in 1..Len(neighbours(Popped, grid)) :
          /\ RefCellCost(grid, neighbours(Popped, grid)[i].pos) = 2
          /\ neighbours(Popped, grid)[i].cost = Popped.cost + 2

(***************************************************************************)
(* C24: the visited set starts empty and changes only when a popped state   *)
(* that is no goal and whose (position, heading, run) is not yet in it is   *)
(* expanded: then exactly that key is added.  A popped state that is no     *)
(* goal and whose key is in the set is skipped: the frontier loses it and   *)
(* gains nothing, the set stays as it is.  So the set holds one key for     *)
(* each expansion made so far, and no configuration is expanded twice.      *)
(***************************************************************************)
\* the (position, heading, run) of the state the next pass pops
RefPoppedKey == <<Popped.pos, Popped.last_direction, Popped.repeated_last_direction>>

C24_VisitedSetIsExpandedKeys ==
    /\ [](Cardinality(seen_states) = expanded)
    /\ [](steps = 0 => seen_states = {})
    /\ [][expanded' # expanded =>
            /\ Popping
            /\ ~is_end_state(Popped)
            /\ RefPoppedKey \notin seen_states
            /\ seen_states' = seen_states \cup {RefPoppedKey}
            /\ expanded' = expanded + 1
            /\ Len(open_states') = Len(open_states) - 1 + Len(neighbours(Popped, grid))]_vars
    /\ [][expanded' = expanded => seen_states' = seen_states]_vars
    /\ [][(Popping /\ ~is_end_state(Popped) /\ RefPoppedKey \in seen_states) =>
            /\ expanded' = expanded
            /\ seen_states' = seen_states
            /\ outcome' = "Running"
            /\ Len(open_states') = Len(open_states) - 1
            /\ \A i \in 1..Len(open_states') : open_states'[i] \in SeqRange(open_states)]_vars
    /\ [][(Popping /\ ~is_end_state(Popped) /\ RefPoppedKey \notin seen_states) =>
            expanded' = expanded + 1]_vars

\* the next pass pops a state that would have successors, but whose
\* configuration was expanded before at a cost no higher: it is skipped
C24_Witness ==
    /\ Popping
    /\ ~is_end_state(Popped)
    /\ RefPoppedKey \in seen_states
    /\ neighbours(Popped, grid) # <<>>
    /\ expanded >= 2

(***************************************************************************)
(* C25 (as stated): two states are equal exactly when their position, last  *)
(* heading and run agree, and the visited set tells states apart by the     *)
(* same triple.                                                             *)
(***************************************************************************)
\* a and b agree in position, last heading and run
RefSameTriple(a, b) ==
    /\ a.pos = b.pos
    /\ a.last_direction = b.last_direction
    /\ a.repeated_last_direction = b.repeated_last_direction

C25_EqualityByTriple ==
    returned # <<>> => (returned[1] <=> RefSameTriple(call.a, call.b))

(***************************************************************************)
(* C25 (amended): the visited set tells states apart by position, last      *)
(* heading and run only, whatever they cost.  State's own equality          *)
(* compares estimates: cost plus the Manhattan distance to (W-1,H-1).  Two  *)
(* states with the same triple and different costs are unequal, two states  *)
(* at different positions with equal estimates are equal.                   *)
(***************************************************************************)
\* cost plus Manhattan distance to the bottom-right cell
RefEstimate(rows, s) ==
    LET dx == (IF rows = <<>> THEN 0 ELSE Len(rows[1])) - 1 - s.pos.x
        dy == Len(rows) - 1 - s.pos.y
    IN  s.cost + (IF dx < 0 THEN 0 - dx ELSE dx) + (IF dy < 0 THEN 0 - dy ELSE dy)

C25_EqualityByEstimate ==
    returned # <<>> =>
        /\ call.fn = "seen_key in seen_states" =>
              (returned[1] <=> RefSameTriple(call.a, call.b))
        /\ call.fn = "State.__eq__" =>
              (returned[1] <=> (RefEstimate(grid, call.a) = RefEstimate(grid, call.b)))

\* two states with the same position, heading and run that have paid
\* different costs were compared and found unequal
C25_Witness ==
    /\ returned # <<>>
    /\ call.fn = "State.__eq__"
    /\ RefSameTriple(call.a, call.b)
    /\ call.a.cost # call.b.cost
    /\ returned[1] = FALSE

(***************************************************************************)
(* C26: the state a pass pops has the least estimate of all states in the   *)
(* frontier, the estimate being cost + |W-1-x| + |H-1-y|.  A pass takes     *)
(* exactly the popped state out of the frontier and, when it expands, puts  *)
(* exactly the popped state's successors in: every other state is in the    *)
(* frontier after the pass as many times as before.                         *)
(***************************************************************************)
\* how many times the state s occurs in the sequence q
RefCount(q, s) == Cardinality({i \in 1..Len(q) : q[i] = s})

\* the successors a pass pushes: those of the popped state when it expands
RefPushed ==
    IF is_end_state(Popped) \/ RefPoppedKey \in seen_states
    THEN <<>>
    ELSE neighbours(Popped, grid)

C26_PopsMinimalEstimate ==
    /\ [](Popping =>
            /\ estimate(Popped) = RefEstimate(grid, Popped)
            /\ \A i \in 1..Len(open_states) :
                  RefEstimate(grid, Popped) <= RefEstimate(grid, open_states[i]))
    /\ [][Popping =>
            /\ Len(open_states') = Len(open_states) - 1 + Len(RefPushed)
            /\ \A s \in SeqRange(open_states) \cup SeqRange(open_states')
                          \cup SeqRange(RefPushed) :
                  RefCount(open_states', s) =
                      RefCount(open_states, s) - (IF s = Popped THEN 1 ELSE 0)
                          + RefCount(RefPushed, s)]_vars
    /\ [][~Popping => open_states' = open_states]_vars

\* the frontier holds states of different estimates, one of them twice, and
\* the pass about to run expands the popped state into two or more successors
C26_Witness ==
    /\ Popping
    /\ Len(RefPushed) >= 2
    /\ \E i \in 1..Len(open_states) :
          RefEstimate(grid, open_states[i]) > RefEstimate(grid, Popped)
    /\ \E i, j \in 1..Len(open_states) : i # j /\ open_states[i] = open_states[j]

(***************************************************************************)
(* C27: on a grid whose cells all cost at least 1, in either mode, the      *)
(* heuristic of a state is at most the cost of every route that obeys the   *)
(* run rules and leads from the state to (W-1,H-1) with a run of at least   *)
(* minRun (admissible), and no successor has a lower estimate than its      *)
(* parent (consistent).                                                     *)
(***************************************************************************)
\* the routes onward from s that cost at most bound, costs counted from s
RefCompletions(rows, s, bound) ==
    LET from == [x |-> s.pos.x, y |-> s.pos.y, d |-> s.last_direction,
                 r |-> s.repeated_last_direction, c |-> 0, over |-> FALSE]
    IN  {p \in RefClosure(rows, ModeMinRun, ModeMaxRun, FALSE, bound, {from}, {from}) :
            /\ p.x = Len(rows[1]) - 1 /\ p.y = Len(rows) - 1
            /\ p.r >= ModeMinRun
            /\ p.c <= bound}

C27_HeuristicAdmissibleConsistent ==
    (Popping /\ CostsWithin(grid, 1, 9)) =>
        LET s == Popped
            succ == neighbours(s, grid)
        IN  /\ heuristic(s) >= 0
            /\ Rectangular(grid) => RefCompletions(grid, s, heuristic(s) - 1) = {}
            /\ \A i \in 1..Len(succ) :
                  /\ estimate(succ[i]) >= estimate(s)
                  /\ heuristic(s) <= RefCellCost(grid, succ[i].pos) + heuristic(succ[i])

\* a state some steps from the destination with a successor whose estimate is
\* its own and a successor whose estimate is higher, and from which a route
\* that costs exactly the heuristic leads to an acceptable arrival
C27_Witness ==
    /\ Popping
    /\ Rectangular(grid)
    /\ CostsWithin(grid, 1, 9)
    /\ heuristic(Popped) >= 2
    /\ Popped.last_direction # "None"
    /\ \E i, j \in 1..Len(neighbours(Popped, grid)) :
          /\ estimate(neighbours(Popped, grid)[i]) = estimate(Popped)
          /\ estimate(neighbours(Popped, grid)[j]) > estimate(Popped)
    /\ RefCompletions(grid, Popped, heuristic(Popped)) # {}

(***************************************************************************)
(* C28: on a grid whose cells all cost at least 1 the estimate of the state *)
(* a pass pops is never lower than that of the state the pass before it     *)
(* popped.  A popped state that is skipped because its key is in the        *)
(* visited set costs no less than the state that was expanded under that    *)
(* key: the first state expanded for a configuration has the least cost.    *)
(***************************************************************************)
\* the <<key, cost>> of the states expanded in the first n passes of the loop
\* that starts with the locals l
RECURSIVE RefExpandedIn(_, _, _)
RefExpandedIn(rows, l, n) ==
    IF n = 0 \/ l.outcome # "Running" \/ l.open_states = <<>>
    THEN {}
    ELSE LET s == l.open_states[1]
             key == <<s.pos, s.last_direction, s.repeated_last_direction>>
         IN  (IF ~is_end_state(s) /\ key \notin l.seen_states
              THEN {<<key, s.cost>>}
              ELSE {})
                 \cup RefExpandedIn(rows, while_step(rows, l), n - 1)

\* the states expanded so far in the search under way
RefExpanded == RefExpandedIn(grid, shortest_path_entry(grid, ultra_crucible), steps)

\* the next pass skips the state it pops
RefSkipping == Popping /\ ~is_end_state(Popped) /\ RefPoppedKey \in seen_states

C28_EstimatesNeverDecrease ==
    /\ [][(CostsWithin(grid, 1, 9) /\ Popping /\ open_states' # <<>>) =>
            estimate(open_states'[1]) >= estimate(Popped)]_vars
    /\ []((CostsWithin(grid, 1, 9) /\ RefSkipping) =>
            LET before == RefExpanded
            IN  /\ {e[1] : e \in before} = seen_states
                /\ \E e \in before : e[1] = RefPoppedKey
                /\ \A e \in before : e[1] = RefPoppedKey => e[2] <= Popped.cost)

\* the pass about to run skips a state that costs more than the state that
\* was expanded under its key, after passes that popped states of at least
\* three different estimates
C28_Witness ==
    /\ CostsWithin(grid, 1, 9)
    /\ RefSkipping
    /\ \E e \in RefExpanded : e[1] = RefPoppedKey /\ e[2] < Popped.cost
    /\ estimate(Popped) >= estimate(initial(grid, ultra_crucible)) + 2

(***************************************************************************)
(* C29: a pass that expands a state with no successor raises nothing and    *)
(* pushes nothing: the state is marked visited, the frontier is what it was *)
(* without the popped state, and the search is still running.  The no-path  *)
(* error is raised only by a pass that finds the frontier empty, and no     *)
(* other error is ever raised.                                              *)
(***************************************************************************)
\* the next pass expands a state that has no successor
RefDeadEnd ==
    /\ Popping
    /\ ~is_end_state(Popped)
    /\ RefPoppedKey \notin seen_states
    /\ neighbours(Popped, grid) = <<>>

C29_DeadEndIsNoError ==
    /\ [][RefDeadEnd =>
            /\ outcome' = "Running"
            /\ error' = ""
            /\ seen_states' = seen_states \cup {RefPoppedKey}
            /\ Len(open_states') = Len(open_states) - 1
            /\ \A s \in SeqRange(open_states) :
                  RefCount(open_states', s) =
                      RefCount(open_states, s) - (IF s = Popped THEN 1 ELSE 0)]_vars
    /\ [][(outcome' # outcome /\ outcome' # "Found") =>
            /\ outcome = "Running"
            /\ open_states = <<>>
            /\ outcome' = "Exhausted"
            /\ error' = "ValueError: Failed to find a path"]_vars
    /\ [](error # "" => (outcome = "Exhausted" /\ open_states = <<>>))
    /\ [](outcome = "Running" => error = "")

\* an extended-mode state with a run below 4 that faces the edge of the grid
\* is about to be expanded while other states wait in the frontier
C29_Witness ==
    /\ RefDeadEnd
    /\ ultra_crucible
    /\ Popped.repeated_last_direction \in 1..3
    /\ ~RefInside(grid, RefAhead(Popped.pos, Popped.last_direction))
    /\ RefOnGrid(grid, RefAhead(Popped.pos, RefLeft(Popped.last_direction)))
    /\ Len(open_states) >= 2

(***************************************************************************)
(* C30: a pass changes no state.  Every state in the frontier after a pass  *)
(* was there before it with the same position, heading, run and cost, or    *)
(* is a new state one step from the popped state, built from the popped     *)
(* state's fields as they were when it was popped; every state that was     *)
(* waiting in the frontier is still there, and the key marked visited is    *)
(* that of the popped state as it was popped.                               *)
(***************************************************************************)
\* t is what one step in the heading of t makes of the state s
RefIsStepFrom(s, t) ==
    /\ t.last_direction \in RefHeadings
    /\ t.pos = RefAhead(s.pos, t.last_direction)
    /\ RefOnGrid(grid, t.pos)
    /\ t.cost = s.cost + RefCellCost(grid, t.pos)
    /\ t.repeated_last_direction =
          (IF t.last_direction = s.last_direction THEN s.repeated_last_direction + 1 ELSE 1)
    /\ t.end_pos = s.end_pos
    /\ t.ultra_crucible = s.ultra_crucible

C30_StatesNeverChange ==
    /\ [][Popping =>
            /\ \A t \in SeqRange(open_states') :
                  \/ RefCount(open_states', t) =
                        RefCount(open_states, t) - (IF t = Popped THEN 1 ELSE 0)
                  \/ /\ RefIsStepFrom(Popped, t)
                     /\ expanded' = expanded + 1
            /\ \A t \in SeqRange(open_states) :
                  RefCount(open_states', t) >=
                      RefCount(open_states, t) - (IF t = Popped THEN 1 ELSE 0)
            /\ seen_states' \in {seen_states, seen_states \cup {RefPoppedKey}}
            /\ outcome' = "Found" => result' = Popped.cost]_vars
    /\ [][~Popping => open_states' = open_states]_vars
    /\ [](Popping => \A i \in 1..Len(neighbours(Popped, grid)) :
                        /\ RefIsStepFrom(Popped, neighbours(Popped, grid)[i])
                        /\ neighbours(Popped, grid)[i] # Popped)

\* a state with three successors is about to be expanded while three or more
\* other states wait in the frontier, one of them with a higher estimate than
\* one of the successors
C30_Witness ==
    /\ Popping
    /\ ~is_end_state(Popped)
    /\ RefPoppedKey \notin seen_states
    /\ Len(neighbours(Popped, grid)) = 3
    /\ Len(open_states) >= 4
    /\ \E i \in 2..Len(open_states) : \E j \in 1..3 :
          estimate(neighbours(Popped, grid)[j]) < estimate(open_states[i])
====
